---- MODULE Spec2Model ----
(***************************************************************************)
(* Expense tracker back end: the authentication / session-refresh protocol *)
(* and the per-user transaction sub-documents.                             *)
(*                                                                         *)
(* The repository holds two versions of the Express server:               *)
(*   "server"   src/backend/server.js   (port 5000, the one the front end  *)
(*              talks to; mounts cookie-parser and cors)                   *)
(*   "part_000" src/unnamed/part_000    (port 3000; mounts no cookie       *)
(*              parser, validates the body of PUT /auth/update)           *)
(* The variable `variant` says which of the two is running.                *)
(*                                                                         *)
(* Time is counted in ticks.  jsonwebtoken stamps a token with             *)
(* iat = floor(now / 1s) and exp = iat + ttl, and signs it with HMAC, so   *)
(* a token is a function of (secret, payload id, iat, exp): two tokens     *)
(* signed for the same user in the same tick are the same string.          *)
(***************************************************************************)
EXTENDS Integers, Sequences, FiniteSets, TLC

VARIABLES
    variant,     \* which server file is running
    users,       \* the users collection of MongoDB, in insertion order
    now,         \* the clock, in ticks
    nextTid,     \* number of ObjectIds handed to transaction sub-documents
    resp,        \* the last request with its response (Idle when delivered)
    pending,     \* the requests in flight between two awaits of their handler
    client,      \* the browser: localStorage and the cookie jar
    ended        \* history: the session that was ended last, and how
                 \*   "logout": a Logout presented this cookie while a user
                 \*             stored it (forgotten once it is stored again)
                 \*   "login":  this cookie was a user's live session when the
                 \*             same user logged in again

vars == <<variant, users, now, nextTid, resp, pending, client, ended>>

----------------------------------------------------------------------------
(* Bounds *)

MaxTime == 2
MaxTx == 2

(* Time to live of an access token ("15m" / "30s") and of a refresh token  *)
(* ("1d"), scaled to ticks; only AccessTtl < RefreshTtl is kept.           *)
AccessTtl == 1
RefreshTtl == 2

Variants == {"server", "part_000"}
Usernames == {"alice", "bob"}
Passwords == {"pw1", "pw2"}
Salts == {"s1"}

----------------------------------------------------------------------------
(* jsonwebtoken *)

ACCESS_TOKEN_SECRET == "access"
REFRESH_TOKEN_SECRET == "refresh"

\* no token: undefined cookie, missing header, null refreshToken field
NoTok == [sig |-> "none", id |-> 0, iat |-> 0, exp |-> 0]

\* a token an outsider made up: the signature matches no secret
Forged == [sig |-> "forged", id |-> 1, iat |-> 0, exp |-> 1000]

\* (mutant) jwt.sign({}, secret, { expiresIn: ttl }): a payload without id
JwtSignAnonymous(id, secret, ttl) == [sig |-> secret, id |-> 0, iat |-> now, exp |-> now + ttl]

\* jwt.sign({ id }, secret, { expiresIn: ttl })
JwtSign(id, secret, ttl) == [sig |-> secret, id |-> id, iat |-> now, exp |-> now + ttl]

\* (mutant) jwt.verify with { ignoreExpiration: true }
JwtVerifyIgnoreExpiration(tok, secret) == tok.sig = secret

\* jwt.verify(token, secret): no error iff the signature is the secret's and
\* the clock has not reached exp
JwtVerify(tok, secret) == tok.sig = secret /\ now < tok.exp

----------------------------------------------------------------------------
(* bcrypt *)

Digest(salt, pwd) == <<salt, pwd>>

\* bcrypt.hash(pwd, 10): a fresh salt and the digest of salt and password
BcryptHash(pwd, salt) == [salt |-> salt, digest |-> Digest(salt, pwd)]

\* (mutant) the candidate is digested without the stored salt
BcryptCompareUnsalted(pwd, hash) == Digest("", pwd) = hash.digest

\* (mutant) compare's promise is used without await: always truthy
BcryptCompareNotAwaited(pwd, hash) == TRUE

\* bcrypt.compare(pwd, hash): digest the candidate with the stored salt
BcryptCompare(pwd, hash) == Digest(hash.salt, pwd) = hash.digest

----------------------------------------------------------------------------
(* The users collection.  A document's _id is its position: ObjectIds are  *)
(* unique and no handler deletes a user.  0 stands for "no document".      *)

Ids(us) == 1..Len(us)

\* (mutant) the query names a field the schema does not have: no match
FindOneByUsernameMiss(us, name) == 0

\* User.findOne({ username })
FindOneByUsername(us, name) ==
    IF \E i \in Ids(us) : us[i].username = name
    THEN CHOOSE i \in Ids(us) :
            /\ us[i].username = name
            /\ \A j \in Ids(us) : us[j].username = name => i <= j
    ELSE 0

\* (mutant) a findOne() whose filter is empty: the first document
FindOneByRefreshTokenAny(us, tok) == IF Len(us) > 0 THEN 1 ELSE 0

\* User.findOne({ refreshToken })
FindOneByRefreshToken(us, tok) ==
    IF \E i \in Ids(us) : us[i].refreshToken = tok
    THEN CHOOSE i \in Ids(us) :
            /\ us[i].refreshToken = tok
            /\ \A j \in Ids(us) : us[j].refreshToken = tok => i <= j
    ELSE 0

\* (mutant) a findOne() that ignores the id: the first document
FindByIdFirst(us, id) == IF Len(us) > 0 THEN 1 ELSE 0

\* User.findById(id)
FindById(us, id) == IF id \in Ids(us) THEN id ELSE 0

\* User.create({ username, password, transactions: [] }); __v is the
\* document's version key
UserCreate(us, name, hash) ==
    Append(us, [username |-> name, password |-> hash,
                refreshToken |-> NoTok, transactions |-> <<>>, __v |-> 0])

\* (mutant) the field is assigned and the document never saved
SetRefreshTokenUnsaved(us, i, tok) == us

\* doc.refreshToken = tok; await doc.save()
SetRefreshToken(us, i, tok) == [us EXCEPT ![i].refreshToken = tok]

----------------------------------------------------------------------------
(* Transaction sub-documents.  "" is a missing or empty string, <<>> a      *)
(* missing amount, <<n>> the amount n (in hundredths).                     *)

NoBody == [type |-> "", category |-> "", amount |-> <<>>, description |-> "", date |-> ""]

Lunch == [type |-> "expense", category |-> "Food", amount |-> <<1250>>,
          description |-> "lunch", date |-> "2024-03-01"]

Salary == [type |-> "income", category |-> "Salary", amount |-> <<0>>,
           description |-> "", date |-> ""]

NoType == [type |-> "", category |-> "Food", amount |-> <<1250>>,
           description |-> "lunch", date |-> "2024-03-02"]

Negative == [type |-> "expense", category |-> "", amount |-> <<0 - 5>>,
             description |-> "", date |-> "2024-03-01"]

NoCategory == [type |-> "expense", category |-> "", amount |-> <<300>>,
               description |-> "misc", date |-> ""]

\* the { type, category, amount, description, date } bodies sent
TxBodies == {Lunch, Salary, NoType, Negative}

\* the bodies sent to one user's ledger: those, and one without a category
LedgerBodies == TxBodies \cup {NoCategory}

\* (mutant) a schema without validators
TransactionValidAnything(t) == TRUE

\* the transaction schema of User.js, which save() validates against: kind is
\* income or expense and amount a non-negative number
TransactionValid(t) ==
    /\ t.type \in {"income", "expense"}
    /\ t.amount # <<>>
    /\ t.amount[1] >= 0

\* a sub-document: the body's five fields under a fresh _id
Subdoc(id, b) ==
    [_id |-> id, type |-> b.type, category |-> b.category, amount |-> b.amount,
     description |-> b.description, date |-> b.date]

\* (mutant) a lookup that ignores the id: the first sub-document
TransactionsIdFirst(txs, tid) == IF Len(txs) > 0 THEN 1 ELSE 0

\* user.transactions.id(tid): the position of the sub-document, 0 for null
TransactionsId(txs, tid) ==
    IF \E k \in 1..Len(txs) : txs[k]._id = tid
    THEN CHOOSE k \in 1..Len(txs) : txs[k]._id = tid
    ELSE 0

\* (mutant) user.transactions.unshift(...): the new sub-document goes first
TransactionsPushFront(txs, id, b) == <<Subdoc(id, b)>> \o txs

\* user.transactions.push({ type, category, amount, description, date })
TransactionsPush(txs, id, b) == Append(txs, Subdoc(id, b))

\* (mutant) a patch: every empty field of the body keeps the stored value
TransactionAssignPatch(t, b) ==
    [t EXCEPT !.type = IF b.type # "" THEN b.type ELSE t.type,
              !.category = IF b.category # "" THEN b.category ELSE t.category,
              !.amount = IF b.amount # <<>> THEN b.amount ELSE t.amount,
              !.description = IF b.description # "" THEN b.description ELSE t.description,
              !.date = IF b.date # "" THEN b.date ELSE t.date]

\* the five assignments of PUT /auth/update/:tid
TransactionAssign(t, b) ==
    [t EXCEPT !.type = b.type, !.category = b.category, !.amount = b.amount,
              !.description = b.description,
              !.date = IF b.date # "" THEN b.date ELSE t.date]

\* (mutant) the addressed sub-document goes, and every one behind it
TransactionsRemoveFrom(txs, k) == SubSeq(txs, 1, k - 1)

\* (mutant) a pop(): the last sub-document goes, whichever was addressed
TransactionsRemoveLast(txs, k) == SubSeq(txs, 1, Len(txs) - 1)

\* transaction.deleteOne()
TransactionsRemove(txs, k) ==
    [j \in 1..(Len(txs) - 1) |-> IF j < k THEN txs[j] ELSE txs[j + 1]]

\* user.save() of a changed transactions array
SetTransactions(us, i, txs) == [us EXCEPT ![i].transactions = txs]

----------------------------------------------------------------------------
(* Requests and responses *)

\* req.cookies?.jwt: cookie-parser fills req.cookies in server.js; part_000
\* mounts no cookie parser, so req.cookies is undefined there
CookieJwt(c) == IF variant = "server" THEN c ELSE NoTok

\* (mutant) a guard that also asks the store whether the user's session is live
VerifyJWTChecksSession(bearer) ==
    IF bearer = NoTok THEN [status |-> 401, id |-> 0]
    ELSE IF ~JwtVerify(bearer, ACCESS_TOKEN_SECRET) THEN [status |-> 403, id |-> 0]
    ELSE IF bearer.id \in Ids(users) /\ users[bearer.id].refreshToken = NoTok
         THEN [status |-> 403, id |-> 0]
    ELSE [status |-> 0, id |-> bearer.id]

\* the access guard (middleware.js): 401 without a bearer token, 403 when
\* jwt.verify fails, else req.user is the decoded payload
VerifyJWT(bearer) ==
    IF bearer = NoTok THEN [status |-> 401, id |-> 0]
    ELSE IF ~JwtVerify(bearer, ACCESS_TOKEN_SECRET) THEN [status |-> 403, id |-> 0]
    ELSE [status |-> 0, id |-> bearer.id]

Idle == [op |-> "idle", status |-> 0, user |-> "", pwd |-> "", cookie |-> NoTok,
         bearer |-> NoTok, uid |-> 0, tid |-> 0, body |-> NoBody,
         accessToken |-> NoTok, setCookie |-> NoTok, cleared |-> FALSE,
         list |-> <<>>, fault |-> "none", loaded |-> <<>>]

NoSession == [how |-> "none", cookie |-> NoTok]

\* the browser before anyone has logged in: nothing in localStorage, no
\* cookie, no request in flight, the component on its login screen (its
\* state currentUser is null)
SignedOut == [accessToken |-> NoTok, currentUser |-> "", cookie |-> NoTok,
              fetching |-> FALSE, screen |-> "login"]

\* what a client sends as the jwt cookie: nothing, a made-up token, or a
\* cookie a Register or Login has set: one still stored, or the one of the
\* session that ended last
CookieInputs ==
    {NoTok, Forged, ended.cookie}
      \cup {users[i].refreshToken : i \in Ids(users)}

\* the _id of a user whose document is no longer in the collection
Removed == 9

\* what a client sends as the bearer token: nothing, a made-up token, or an
\* access token carrying the server's signature, for a registered user or
\* for one whose document is gone
BearerInputs ==
    {NoTok, Forged}
      \cup {[sig |-> ACCESS_TOKEN_SECRET, id |-> i, iat |-> t, exp |-> t + AccessTtl] :
                i \in Ids(users) \cup {Removed}, t \in 0..now}

\* the { user, pwd } bodies sent to /register and /login; "" is a missing field
Credentials ==
    (Usernames \X Passwords) \cup {<<"", "pw1">>, <<"alice", "">>}

\* the { user, pwd } bodies of the runs with transactions
Accounts == {<<"alice", "pw1">>, <<"alice", "">>, <<"bob", "pw2">>, <<"bob", "pw1">>}

\* the accounts of the transaction store's runs
Owners == {<<"alice", "pw1">>, <<"bob", "pw2">>}

\* the :tid path parameters sent
TidInputs == 1..MaxTx

----------------------------------------------------------------------------
(* POST /register *)

\* (mutant) a Register without the check of its two fields
RegisterUnchecked(user, pwd, salt) ==
    LET req == [Idle EXCEPT !.op = "register", !.user = user, !.pwd = pwd]
        created == UserCreate(users, user, BcryptHash(pwd, salt))
        id == Len(created)
        refreshToken == JwtSign(id, REFRESH_TOKEN_SECRET, RefreshTtl)
    IN
    IF FindOneByUsername(users, user) # 0
    THEN /\ resp' = [req EXCEPT !.status = 409]
         /\ UNCHANGED <<variant, pending, users, now, nextTid, ended>>
    ELSE /\ users' = SetRefreshToken(created, id, refreshToken)
         /\ resp' = [req EXCEPT !.status = 201, !.setCookie = refreshToken,
                                !.accessToken = JwtSign(id, ACCESS_TOKEN_SECRET, AccessTtl)]
         /\ UNCHANGED <<variant, pending, now, nextTid, ended>>

Register(user, pwd, salt) ==
    LET req == [Idle EXCEPT !.op = "register", !.user = user, !.pwd = pwd] IN
    IF user = "" \/ pwd = ""
    THEN /\ resp' = [req EXCEPT !.status = 400]
         /\ UNCHANGED <<variant, pending, users, now, nextTid, ended>>
    ELSE IF FindOneByUsername(users, user) # 0
    THEN /\ resp' = [req EXCEPT !.status = 409]
         /\ UNCHANGED <<variant, pending, users, now, nextTid, ended>>
    ELSE LET created == UserCreate(users, user, BcryptHash(pwd, salt))
             id == Len(created)
             accessToken == JwtSign(id, ACCESS_TOKEN_SECRET, AccessTtl)
             refreshToken == JwtSign(id, REFRESH_TOKEN_SECRET, RefreshTtl)
         IN /\ users' = SetRefreshToken(created, id, refreshToken)
            /\ resp' = [req EXCEPT !.status = 201, !.accessToken = accessToken,
                                   !.setCookie = refreshToken]
            /\ UNCHANGED <<variant, pending, now, nextTid, ended>>

(* POST /register as two steps, split at its await of User.findOne: the  *)
(* requests that found no duplicate wait in pending for their User.create *)

MaxPending == 2

\* (mutant) a username field without unique index
UniqueIndexAbsent(us, name) == FALSE

\* the unique index on username (User.js): User.create rejects a document
\* whose username some stored document has
UniqueIndexRejects(us, name) == \E i \in Ids(us) : us[i].username = name

RegisterFindOne(rid, user, pwd, salt) ==
    LET req == [Idle EXCEPT !.op = "register", !.user = user, !.pwd = pwd] IN
    /\ rid \in 1..MaxPending
    /\ \A p \in pending : p.rid # rid
    /\ IF user = "" \/ pwd = ""
       THEN /\ resp' = [req EXCEPT !.status = 400]
            /\ pending' = pending
       ELSE IF FindOneByUsername(users, user) # 0
       THEN /\ resp' = [req EXCEPT !.status = 409]
            /\ pending' = pending
       ELSE \* no duplicate: bcrypt.hash is awaited, nothing is answered yet
            /\ resp' = resp
            /\ pending' = pending \cup {[rid |-> rid, user |-> user, pwd |-> pwd,
                                         salt |-> salt]}
    /\ UNCHANGED <<variant, users, now, nextTid, ended>>

RegisterCreate(p) ==
    LET req == [Idle EXCEPT !.op = "register", !.user = p.user, !.pwd = p.pwd]
        created == UserCreate(users, p.user, BcryptHash(p.pwd, p.salt))
        id == Len(created)
        accessToken == JwtSign(id, ACCESS_TOKEN_SECRET, AccessTtl)
        refreshToken == JwtSign(id, REFRESH_TOKEN_SECRET, RefreshTtl)
    IN
    /\ p \in pending
    /\ pending' = pending \ {p}
    /\ IF UniqueIndexRejects(users, p.user)
       THEN \* User.create throws; the handler's catch answers 500
            /\ resp' = [req EXCEPT !.status = 500, !.fault = "create"]
            /\ users' = users
       ELSE /\ users' = SetRefreshToken(created, id, refreshToken)
            /\ resp' = [req EXCEPT !.status = 201, !.accessToken = accessToken,
                                   !.setCookie = refreshToken]
    /\ UNCHANGED <<variant, now, nextTid, ended>>

(* POST /login *)

Login(user, pwd) ==
    LET req == [Idle EXCEPT !.op = "login", !.user = user, !.pwd = pwd]
        foundUser == FindOneByUsername(users, user)
    IN
    IF user = "" \/ pwd = ""
    THEN /\ resp' = [req EXCEPT !.status = 400]
         /\ UNCHANGED <<variant, pending, users, now, nextTid, ended>>
    ELSE IF foundUser = 0
    THEN /\ resp' = [req EXCEPT !.status = 401]
         /\ UNCHANGED <<variant, pending, users, now, nextTid, ended>>
    ELSE IF ~BcryptCompare(pwd, users[foundUser].password)
    THEN /\ resp' = [req EXCEPT !.status = 401]
         /\ UNCHANGED <<variant, pending, users, now, nextTid, ended>>
    ELSE LET accessToken == JwtSign(foundUser, ACCESS_TOKEN_SECRET, AccessTtl)
             refreshToken == JwtSign(foundUser, REFRESH_TOKEN_SECRET, RefreshTtl)
             live == users[foundUser].refreshToken
         IN /\ users' = SetRefreshToken(users, foundUser, refreshToken)
            /\ resp' = [req EXCEPT !.status = 200, !.accessToken = accessToken,
                                   !.setCookie = refreshToken]
            /\ ended' = IF live # NoTok THEN [how |-> "login", cookie |-> live]
                        ELSE IF ended = [how |-> "logout", cookie |-> refreshToken]
                             THEN NoSession
                        ELSE ended
            /\ UNCHANGED <<variant, pending, now, nextTid>>

(* POST /refresh *)

RefreshResponse(req, refreshToken, foundUser) ==
    IF refreshToken = NoTok THEN [req EXCEPT !.status = 401]
    ELSE IF foundUser = 0 THEN [req EXCEPT !.status = 403]
    ELSE IF ~JwtVerify(refreshToken, REFRESH_TOKEN_SECRET)
               \/ foundUser # refreshToken.id
         THEN [req EXCEPT !.status = 403]
    ELSE [req EXCEPT !.status = 200,
                     !.accessToken = JwtSign(foundUser, ACCESS_TOKEN_SECRET, AccessTtl)]

\* (mutant) a Refresh that rotates: it signs, stores and sets a new refresh token
RefreshRotates(cookie) ==
    LET req == [Idle EXCEPT !.op = "refresh", !.cookie = cookie]
        refreshToken == CookieJwt(cookie)
        foundUser == FindOneByRefreshToken(users, refreshToken)
        answer == RefreshResponse(req, refreshToken, foundUser)
        rotated == JwtSign(foundUser, REFRESH_TOKEN_SECRET, RefreshTtl)
    IN
    /\ resp' = IF answer.status = 200 THEN [answer EXCEPT !.setCookie = rotated]
               ELSE answer
    /\ users' = IF answer.status = 200 THEN SetRefreshToken(users, foundUser, rotated)
                ELSE users
    /\ UNCHANGED <<variant, pending, now, nextTid, ended>>

Refresh(cookie) ==
    LET req == [Idle EXCEPT !.op = "refresh", !.cookie = cookie]
        refreshToken == CookieJwt(cookie)
        foundUser == FindOneByRefreshToken(users, refreshToken)
    IN
    /\ resp' = RefreshResponse(req, refreshToken, foundUser)
    /\ UNCHANGED <<variant, pending, users, now, nextTid, ended>>

(* POST /logout *)

Logout(cookie) ==
    LET req == [Idle EXCEPT !.op = "logout", !.cookie = cookie]
        refreshToken == CookieJwt(cookie)
        foundUser == FindOneByRefreshToken(users, refreshToken)
    IN
    /\ IF refreshToken = NoTok
       THEN \* both files return here, before any clearCookie
            /\ resp' = [req EXCEPT !.status = 204]
            /\ users' = users
       ELSE /\ resp' = [req EXCEPT !.status = 204, !.cleared = TRUE]
            /\ users' = IF foundUser # 0
                        THEN SetRefreshToken(users, foundUser, NoTok)
                        ELSE users
    /\ ended' = IF cookie # NoTok /\ \E i \in Ids(users) : users[i].refreshToken = cookie
                THEN [how |-> "logout", cookie |-> cookie]
                ELSE ended
    /\ UNCHANGED <<variant, pending, now, nextTid>>

----------------------------------------------------------------------------
(* POST /auth/create *)

Create(bearer, body) ==
    LET req == [Idle EXCEPT !.op = "create", !.bearer = bearer, !.body = body]
        guard == VerifyJWT(bearer)
        user == FindById(users, guard.id)
        pushed == TransactionsPush(users[user].transactions, nextTid + 1, body)
    IN
    /\ nextTid < MaxTx
    /\ IF guard.status # 0
       THEN /\ resp' = [req EXCEPT !.status = guard.status]
            /\ UNCHANGED <<users, nextTid>>
       ELSE IF user = 0
       THEN /\ resp' = [req EXCEPT !.status = 404, !.uid = guard.id]
            /\ UNCHANGED <<users, nextTid>>
       ELSE IF ~TransactionValid(body)
       THEN \* save() throws; the handler's catch answers 500
            /\ resp' = [req EXCEPT !.status = 500, !.uid = guard.id]
            /\ UNCHANGED <<users, nextTid>>
       ELSE /\ users' = SetTransactions(users, user, pushed)
            /\ nextTid' = nextTid + 1
            /\ resp' = [req EXCEPT !.status = 201, !.uid = guard.id]
    /\ UNCHANGED <<variant, pending, now, ended>>

(* GET /auth/transactions *)

\* (mutant) a list sorted newest first
TransactionsNewestFirst(bearer) ==
    LET req == [Idle EXCEPT !.op = "transactions", !.bearer = bearer]
        guard == VerifyJWT(bearer)
        user == FindById(users, guard.id)
        txs == users[user].transactions
    IN
    /\ resp' = IF guard.status # 0 THEN [req EXCEPT !.status = guard.status]
               ELSE IF user = 0 THEN [req EXCEPT !.status = 404, !.uid = guard.id]
               ELSE [req EXCEPT !.status = 200, !.uid = guard.id,
                                !.list = [k \in 1..Len(txs) |-> txs[Len(txs) + 1 - k]]]
    /\ UNCHANGED <<variant, pending, users, now, nextTid, ended>>

Transactions(bearer) ==
    LET req == [Idle EXCEPT !.op = "transactions", !.bearer = bearer]
        guard == VerifyJWT(bearer)
        user == FindById(users, guard.id)
    IN
    /\ resp' = IF guard.status # 0 THEN [req EXCEPT !.status = guard.status]
               ELSE IF user = 0 THEN [req EXCEPT !.status = 404, !.uid = guard.id]
               ELSE [req EXCEPT !.status = 200, !.uid = guard.id,
                                !.list = users[user].transactions]
    /\ UNCHANGED <<variant, pending, users, now, nextTid, ended>>

(* PUT /auth/update/:tid *)

\* part_000 answers 400 when type, category or amount is missing; server.js
\* has no such check
UpdateBodyRejected(body) ==
    /\ variant = "part_000"
    /\ (body.type = "" \/ body.category = "" \/ body.amount = <<>>)

Update(bearer, tid, body) ==
    LET req == [Idle EXCEPT !.op = "update", !.bearer = bearer, !.tid = tid,
                            !.body = body]
        guard == VerifyJWT(bearer)
        user == FindById(users, guard.id)
        txs == users[user].transactions
        k == TransactionsId(txs, tid)
        assigned == TransactionAssign(txs[k], body)
    IN
    /\ IF guard.status # 0
       THEN /\ resp' = [req EXCEPT !.status = guard.status]
            /\ users' = users
       ELSE IF UpdateBodyRejected(body)
       THEN /\ resp' = [req EXCEPT !.status = 400, !.uid = guard.id]
            /\ users' = users
       ELSE IF user = 0
       THEN /\ resp' = [req EXCEPT !.status = 404, !.uid = guard.id]
            /\ users' = users
       ELSE IF k = 0
       THEN /\ resp' = [req EXCEPT !.status = 404, !.uid = guard.id]
            /\ users' = users
       ELSE IF ~TransactionValid(assigned)
       THEN /\ resp' = [req EXCEPT !.status = 500, !.uid = guard.id]
            /\ users' = users
       ELSE /\ resp' = [req EXCEPT !.status = 200, !.uid = guard.id]
            /\ users' = SetTransactions(users, user, [txs EXCEPT ![k] = assigned])
    /\ UNCHANGED <<variant, pending, now, nextTid, ended>>

(* DELETE /auth/delete/:tid *)

Delete(bearer, tid) ==
    LET req == [Idle EXCEPT !.op = "delete", !.bearer = bearer, !.tid = tid]
        guard == VerifyJWT(bearer)
        user == FindById(users, guard.id)
        txs == users[user].transactions
        k == TransactionsId(txs, tid)
    IN
    /\ IF guard.status # 0
       THEN /\ resp' = [req EXCEPT !.status = guard.status]
            /\ users' = users
       ELSE IF user = 0
       THEN /\ resp' = [req EXCEPT !.status = 404, !.uid = guard.id]
            /\ users' = users
       ELSE IF k = 0
       THEN /\ resp' = [req EXCEPT !.status = 404, !.uid = guard.id]
            /\ users' = users
       ELSE /\ resp' = [req EXCEPT !.status = 200, !.uid = guard.id]
            /\ users' = SetTransactions(users, user, TransactionsRemove(txs, k))
    /\ UNCHANGED <<variant, pending, now, nextTid, ended>>

----------------------------------------------------------------------------
(* The transaction routes as two steps, split at their await of            *)
(* User.findById: a request that found its user, and for update and delete *)
(* its sub-document, waits in pending with the document it loaded; its     *)
(* second step mutates that document and awaits save().                    *)
(*                                                                         *)
(* save() of a loaded document writes what was modified on it, not the     *)
(* whole document: a push is sent as $push, a deleteOne() of a             *)
(* sub-document as $pull by _id, an assigned field of the sub-document at  *)
(* position k as $set of transactions.k.field, and only when the assigned  *)
(* value differs from the loaded one.  $push and $pull increment the       *)
(* version key.                                                            *)

Fields == {"type", "category", "amount", "description", "date"}

\* the fields whose assigned value differs from the loaded one
Modified(loaded, assigned) == {f \in Fields : assigned[f] # loaded[f]}

\* an array element that was never a sub-document
NullDoc == Subdoc(0, NoBody)

\* $set of the modified fields on element t
SetFields(t, assigned, mod) ==
    [f \in DOMAIN t |-> IF f \in mod THEN assigned[f] ELSE t[f]]

\* $set of transactions.k.field for the modified fields; an array shorter
\* than k is filled up with null elements
SetAtPosition(txs, k, assigned, mod) ==
    IF mod = {} THEN txs
    ELSE IF k <= Len(txs) THEN [txs EXCEPT ![k] = SetFields(@, assigned, mod)]
    ELSE txs \o [j \in 1..(k - Len(txs) - 1) |-> NullDoc]
             \o <<SetFields(NullDoc, assigned, mod)>>

\* $pull of the sub-document with this _id
TransactionsPull(txs, tid) == SelectSeq(txs, LAMBDA t : t._id # tid)

\* (mutant) a save() that writes the whole loaded document back
SaveWholeDocument(us, i, loaded, txs, inc) ==
    [us EXCEPT ![i] = [loaded EXCEPT !.transactions = txs, !.__v = @ + inc]]

\* save(): the transactions array and the version key are written, no other
\* path of the document
SaveTransactions(us, i, loaded, txs, inc) ==
    [us EXCEPT ![i].transactions = txs, ![i].__v = @ + inc]

TxLoad(rid, kind, bearer, tid, body) ==
    LET req == [Idle EXCEPT !.op = kind, !.bearer = bearer, !.tid = tid,
                            !.body = body]
        guard == VerifyJWT(bearer)
        user == FindById(users, guard.id)
        k == IF kind = "create" THEN 0
             ELSE TransactionsId(users[user].transactions, tid)
        early == IF guard.status # 0 THEN guard.status
                 ELSE IF kind = "update" /\ UpdateBodyRejected(body) THEN 400
                 ELSE IF user = 0 THEN 404
                 ELSE IF kind # "create" /\ k = 0 THEN 404
                 ELSE 0
    IN
    /\ rid \in 1..MaxPending
    /\ \A p \in pending : p.rid # rid
    /\ kind \in {"create", "update", "delete"}
    /\ kind = "create" => tid = 0
    /\ kind = "delete" => body = NoBody
    /\ kind = "create" =>
          nextTid + Cardinality({p \in pending : p.kind = "create"}) < MaxTx
    /\ IF early # 0
       THEN /\ resp' = [req EXCEPT !.status = early,
                                   !.uid = IF guard.status = 0 THEN guard.id ELSE 0]
            /\ pending' = pending
       ELSE \* nothing is answered before save() returns
            /\ resp' = resp
            /\ pending' = pending \cup {[rid |-> rid, kind |-> kind, bearer |-> bearer,
                                         tid |-> tid, body |-> body, uid |-> user,
                                         doc |-> users[user], k |-> k]}
    /\ UNCHANGED <<variant, users, now, nextTid, ended>>

\* the schema's versionKey option: the user schema is not among the sources,
\* and the program is described as having no locking and no optimistic
\* versioning, so both settings are kept
SchemaVersionKey == BOOLEAN

\* rejectStale: whether save() rejects with a VersionError a $pull or a
\* positional $set of a document whose version key has moved since it was
\* loaded; that depends on the schema's versionKey option (User.js) and on
\* the mongoose release
TxSave(p, rejectStale) ==
    LET req == [Idle EXCEPT !.op = p.kind, !.bearer = p.bearer, !.tid = p.tid,
                            !.body = p.body, !.uid = p.uid, !.loaded = <<p.doc>>]
        stored == users[p.uid].transactions
        stale == users[p.uid].__v # p.doc.__v
        loaded == p.doc.transactions[p.k]
        assigned == TransactionAssign(loaded, p.body)
        mod == Modified(loaded, assigned)
    IN
    /\ p \in pending
    /\ pending' = pending \ {p}
    /\ IF p.kind = "create"
       THEN IF ~TransactionValid(p.body)
            THEN /\ resp' = [req EXCEPT !.status = 500]
                 /\ UNCHANGED <<users, nextTid>>
            ELSE /\ users' = SaveTransactions(users, p.uid, p.doc,
                                 TransactionsPush(stored, nextTid + 1, p.body), 1)
                 /\ nextTid' = nextTid + 1
                 /\ resp' = [req EXCEPT !.status = 201]
       ELSE IF p.kind = "update" /\ ~TransactionValid(assigned)
       THEN /\ resp' = [req EXCEPT !.status = 500]
            /\ UNCHANGED <<users, nextTid>>
       ELSE IF stale /\ rejectStale
       THEN \* VersionError; the handler's catch answers 500
            /\ resp' = [req EXCEPT !.status = 500, !.fault = "version"]
            /\ UNCHANGED <<users, nextTid>>
       ELSE IF p.kind = "delete"
       THEN /\ users' = SaveTransactions(users, p.uid, p.doc,
                            TransactionsPull(stored, p.tid), 1)
            /\ resp' = [req EXCEPT !.status = 200]
            /\ UNCHANGED nextTid
       ELSE /\ users' = SaveTransactions(users, p.uid, p.doc,
                            SetAtPosition(stored, p.k, assigned, mod), 0)
            /\ resp' = [req EXCEPT !.status = 200]
            /\ UNCHANGED nextTid
    /\ UNCHANGED <<variant, now, ended>>

(* POST /logout as two steps, split at its await of User.findOne. *)

LogoutFindOne(rid, cookie) ==
    LET req == [Idle EXCEPT !.op = "logout", !.cookie = cookie]
        refreshToken == CookieJwt(cookie)
        foundUser == FindOneByRefreshToken(users, refreshToken)
    IN
    /\ rid \in 1..MaxPending
    /\ \A p \in pending : p.rid # rid
    /\ IF refreshToken = NoTok
       THEN /\ resp' = [req EXCEPT !.status = 204]
            /\ pending' = pending
       ELSE IF foundUser = 0
       THEN /\ resp' = [req EXCEPT !.status = 204, !.cleared = TRUE]
            /\ pending' = pending
       ELSE /\ resp' = resp
            /\ pending' = pending \cup {[rid |-> rid, kind |-> "logout",
                                         cookie |-> cookie, uid |-> foundUser]}
    /\ UNCHANGED <<variant, users, now, nextTid, ended>>

\* foundUser.refreshToken = null; await foundUser.save(); clearCookie; 204
LogoutSave(p) ==
    LET req == [Idle EXCEPT !.op = "logout", !.cookie = p.cookie] IN
    /\ p \in pending
    /\ pending' = pending \ {p}
    /\ users' = SetRefreshToken(users, p.uid, NoTok)
    /\ resp' = [req EXCEPT !.status = 204, !.cleared = TRUE]
    /\ ended' = IF users[p.uid].refreshToken # NoTok
                THEN [how |-> "logout", cookie |-> users[p.uid].refreshToken]
                ELSE ended
    /\ UNCHANGED <<variant, now, nextTid>>

----------------------------------------------------------------------------
(* The store fails: one awaited call of a handler (User.findOne,           *)
(* User.findById, User.create, save) rejects.  The field fault of the      *)
(* response names the call.                                                *)

\* the handlers whose store calls stand inside try/catch: in server.js all
\* but login, refresh and logout; in part_000 all but login
Caught(op) ==
    IF variant = "server" THEN op \notin {"login", "refresh", "logout"}
    ELSE op # "login"

\* the status a client sees after the rejection: 500 from the handler's
\* catch; without one the rejection of the async handler is left to Express,
\* whose version no file of the repository fixes: Express 5 answers 500,
\* Express 4 never answers (status 0)
FaultStatus(op) == IF Caught(op) THEN {500} ELSE {0, 500}

RegisterStoreFails(user, pwd, salt, at) ==
    LET req == [Idle EXCEPT !.op = "register", !.user = user, !.pwd = pwd] IN
    /\ user # "" /\ pwd # ""
    /\ at \in {"findOne", "create", "save"}
    /\ at # "findOne" => FindOneByUsername(users, user) = 0
    /\ \E status \in FaultStatus("register") :
           resp' = [req EXCEPT !.status = status, !.fault = at]
    \* User.create has stored the document when the later save rejects
    /\ users' = IF at = "save" THEN UserCreate(users, user, BcryptHash(pwd, salt))
                ELSE users
    /\ UNCHANGED <<variant, pending, now, nextTid, ended>>

LoginStoreFails(user, pwd, at) ==
    LET req == [Idle EXCEPT !.op = "login", !.user = user, !.pwd = pwd]
        foundUser == FindOneByUsername(users, user)
    IN
    /\ user # "" /\ pwd # ""
    /\ at \in {"findOne", "save"}
    /\ at = "save" => foundUser # 0 /\ BcryptCompare(pwd, users[foundUser].password)
    /\ \E status \in FaultStatus("login") :
           resp' = [req EXCEPT !.status = status, !.fault = at]
    /\ UNCHANGED <<variant, pending, users, now, nextTid, ended>>

RefreshStoreFails(cookie) ==
    LET req == [Idle EXCEPT !.op = "refresh", !.cookie = cookie] IN
    /\ CookieJwt(cookie) # NoTok
    /\ \E status \in FaultStatus("refresh") :
           resp' = [req EXCEPT !.status = status, !.fault = "findOne"]
    /\ UNCHANGED <<variant, pending, users, now, nextTid, ended>>

LogoutStoreFails(cookie, at) ==
    LET req == [Idle EXCEPT !.op = "logout", !.cookie = cookie] IN
    /\ CookieJwt(cookie) # NoTok
    /\ at \in {"findOne", "save"}
    /\ at = "save" => FindOneByRefreshToken(users, CookieJwt(cookie)) # 0
    /\ \E status \in FaultStatus("logout") :
           resp' = [req EXCEPT !.status = status, !.fault = at]
    /\ UNCHANGED <<variant, pending, users, now, nextTid, ended>>

CreateStoreFails(bearer, body, at) ==
    LET req == [Idle EXCEPT !.op = "create", !.bearer = bearer, !.body = body]
        guard == VerifyJWT(bearer)
    IN
    /\ guard.status = 0
    /\ at \in {"findById", "save"}
    /\ at = "save" => FindById(users, guard.id) # 0
    /\ \E status \in FaultStatus("create") :
           resp' = [req EXCEPT !.status = status, !.uid = guard.id, !.fault = at]
    /\ UNCHANGED <<variant, pending, users, now, nextTid, ended>>

TransactionsStoreFails(bearer) ==
    LET req == [Idle EXCEPT !.op = "transactions", !.bearer = bearer]
        guard == VerifyJWT(bearer)
    IN
    /\ guard.status = 0
    /\ \E status \in FaultStatus("transactions") :
           resp' = [req EXCEPT !.status = status, !.uid = guard.id,
                               !.fault = "findById"]
    /\ UNCHANGED <<variant, pending, users, now, nextTid, ended>>

UpdateStoreFails(bearer, tid, body, at) ==
    LET req == [Idle EXCEPT !.op = "update", !.bearer = bearer, !.tid = tid,
                            !.body = body]
        guard == VerifyJWT(bearer)
        user == FindById(users, guard.id)
    IN
    /\ guard.status = 0
    /\ ~UpdateBodyRejected(body)
    /\ at \in {"findById", "save"}
    /\ at = "save" => user # 0 /\ TransactionsId(users[user].transactions, tid) # 0
    /\ \E status \in FaultStatus("update") :
           resp' = [req EXCEPT !.status = status, !.uid = guard.id, !.fault = at]
    /\ UNCHANGED <<variant, pending, users, now, nextTid, ended>>

DeleteStoreFails(bearer, tid, at) ==
    LET req == [Idle EXCEPT !.op = "delete", !.bearer = bearer, !.tid = tid]
        guard == VerifyJWT(bearer)
        user == FindById(users, guard.id)
    IN
    /\ guard.status = 0
    /\ at \in {"findById", "save"}
    /\ at = "save" => user # 0 /\ TransactionsId(users[user].transactions, tid) # 0
    /\ \E status \in FaultStatus("delete") :
           resp' = [req EXCEPT !.status = status, !.uid = guard.id, !.fault = at]
    /\ UNCHANGED <<variant, pending, users, now, nextTid, ended>>

----------------------------------------------------------------------------
(* The clock advances; the pending response has been delivered. *)

Tick ==
    /\ now < MaxTime
    /\ now' = now + 1
    /\ resp' = Idle
    /\ UNCHANGED <<variant, pending, users, nextTid, ended>>

----------------------------------------------------------------------------
(* The client (BudgetTracker.jsx).  Its requests go to port 5000, where    *)
(* server.js listens; the request interceptor sends localStorage's         *)
(* accessToken as the bearer token.  An un-awaited fetchTransactions() is  *)
(* a GET in flight (fetching), answered by the step FetchTransactions.     *)

\* the status codes axios resolves on; any other rejects into the catch
Resolved == 200..299

\* baseURL names port 5000
Reachable == variant = "server"

HandleAuth(isLogin, username, password, salt) ==
    /\ Reachable
    /\ ~client.fetching
    /\ client.screen = "login"
    /\ IF username = "" \/ password = ""
       THEN \* alert("Fill all fields"): nothing is sent
            UNCHANGED vars
       ELSE /\ IF isLogin THEN Login(username, password)
               ELSE Register(username, password, salt)
            /\ client' = IF resp'.status \in Resolved
                         THEN [accessToken |-> resp'.accessToken,
                               currentUser |-> username,
                               cookie |-> resp'.setCookie,
                               fetching |-> TRUE,
                               screen |-> "app"]
                         ELSE client

FetchTransactions ==
    /\ Reachable
    /\ client.fetching
    /\ Transactions(client.accessToken)
    \* setTransactions(res.data), or console.error in the catch
    /\ client' = [client EXCEPT !.fetching = FALSE]

\* the effect run on mount: a saved currentUser starts a fetch
Mount ==
    /\ Reachable
    /\ ~client.fetching
    /\ client.currentUser # ""
    /\ client' = [client EXCEPT !.fetching = TRUE, !.screen = "app"]
    /\ UNCHANGED <<variant, users, now, nextTid, resp, pending, ended>>

\* tid = 0 when no transaction is being edited
HandleSubmit(tid, body) ==
    /\ Reachable
    /\ ~client.fetching
    /\ client.screen = "app"
    /\ IF tid # 0 THEN Update(client.accessToken, tid, body)
       ELSE Create(client.accessToken, body)
    /\ client' = IF resp'.status \in Resolved
                 THEN [client EXCEPT !.fetching = TRUE]
                 ELSE client

DeleteTransaction(id) ==
    /\ Reachable
    /\ ~client.fetching
    /\ client.screen = "app"
    /\ Delete(client.accessToken, id)
    /\ client' = IF resp'.status \in Resolved
                 THEN [client EXCEPT !.fetching = TRUE]
                 ELSE client

\* the jwt cookie goes with the request; localStorage loses accessToken and
\* keeps currentUser; the component's state currentUser becomes null
HandleLogout ==
    /\ Reachable
    /\ ~client.fetching
    /\ client.screen = "app"
    /\ Logout(client.cookie)
    /\ client' = [client EXCEPT !.accessToken = NoTok,
                                !.cookie = IF resp'.cleared THEN NoTok ELSE @,
                                !.screen = "login"]

----------------------------------------------------------------------------

Init ==
    /\ variant \in Variants
    /\ users = <<>>
    /\ now = 0
    /\ nextTid = 0
    /\ resp = Idle
    /\ pending = {}
    /\ client = SignedOut
    /\ ended = NoSession

(* The session protocol: the four authentication routes and the clock. *)

Next ==
    \/ \E c \in Credentials, salt \in Salts : Register(c[1], c[2], salt) /\ UNCHANGED client
    \/ \E c \in Credentials : Login(c[1], c[2]) /\ UNCHANGED client
    \/ \E cookie \in CookieInputs : Refresh(cookie) /\ UNCHANGED client
    \/ \E cookie \in CookieInputs : Logout(cookie) /\ UNCHANGED client
    \/ Tick /\ UNCHANGED client

Spec == Init /\ [][Next]_vars

(* Sessions with transactions behind them: users register, log in and    *)
(* refresh while they own transactions and the clock advances.            *)

NextSession ==
    \/ \E c \in Accounts, salt \in Salts : Register(c[1], c[2], salt) /\ UNCHANGED client
    \/ \E c \in Accounts : Login(c[1], c[2]) /\ UNCHANGED client
    \/ \E cookie \in CookieInputs : Refresh(cookie) /\ UNCHANGED client
    \/ \E bearer \in BearerInputs : Create(bearer, Lunch) /\ UNCHANGED client
    \/ Tick /\ UNCHANGED client

SpecSession == Init /\ [][NextSession]_vars

(* The transaction store: registered users create, list, update and       *)
(* delete transactions.  The clock stands still.                          *)

NextTx ==
    \/ \E c \in Owners, salt \in Salts : Register(c[1], c[2], salt) /\ UNCHANGED client
    \/ \E bearer \in BearerInputs, body \in TxBodies : Create(bearer, body) /\ UNCHANGED client
    \/ \E bearer \in BearerInputs : Transactions(bearer) /\ UNCHANGED client
    \/ \E bearer \in BearerInputs, tid \in TidInputs, body \in TxBodies :
          Update(bearer, tid, body) /\ UNCHANGED client
    \/ \E bearer \in BearerInputs, tid \in TidInputs : Delete(bearer, tid) /\ UNCHANGED client

SpecTx == Init /\ [][NextTx]_vars

(* One user's ledger: a single account creates, lists, updates and deletes *)
(* its transactions with every kind of body.  The clock stands still.      *)

NextLedger ==
    \/ \E salt \in Salts : Register("alice", "pw1", salt) /\ UNCHANGED client
    \/ \E bearer \in BearerInputs, body \in LedgerBodies : Create(bearer, body) /\ UNCHANGED client
    \/ \E bearer \in BearerInputs : Transactions(bearer) /\ UNCHANGED client
    \/ \E bearer \in BearerInputs, tid \in TidInputs, body \in LedgerBodies :
          Update(bearer, tid, body) /\ UNCHANGED client
    \/ \E bearer \in BearerInputs, tid \in TidInputs : Delete(bearer, tid) /\ UNCHANGED client

SpecLedger == Init /\ [][NextLedger]_vars

(* The access guard over time: sessions begin and end and the clock        *)
(* advances while access tokens, live or expired, are presented to the     *)
(* four transaction routes.                                                *)

NextGuard ==
    \/ \E salt \in Salts : Register("alice", "pw1", salt) /\ UNCHANGED client
    \/ Login("alice", "pw1") /\ UNCHANGED client
    \/ \E cookie \in CookieInputs : Logout(cookie) /\ UNCHANGED client
    \/ \E bearer \in BearerInputs : Create(bearer, Lunch) /\ UNCHANGED client
    \/ \E bearer \in BearerInputs : Transactions(bearer) /\ UNCHANGED client
    \/ \E bearer \in BearerInputs, tid \in TidInputs :
          Update(bearer, tid, Salary) /\ UNCHANGED client
    \/ \E bearer \in BearerInputs, tid \in TidInputs : Delete(bearer, tid) /\ UNCHANGED client
    \/ Tick /\ UNCHANGED client

SpecGuard == Init /\ [][NextGuard]_vars

(* The store under failure: users register, log in, log out and create    *)
(* transactions while any awaited store call of any handler may reject.   *)

StoreCalls == {"findOne", "findById", "create", "save"}

NextOutage ==
    \/ \E c \in Owners, salt \in Salts : Register(c[1], c[2], salt) /\ UNCHANGED client
    \/ \E c \in Owners : Login(c[1], c[2]) /\ UNCHANGED client
    \/ \E cookie \in CookieInputs : Logout(cookie) /\ UNCHANGED client
    \/ \E bearer \in BearerInputs : Create(bearer, Lunch) /\ UNCHANGED client
    \/ \E c \in Owners, salt \in Salts, at \in StoreCalls :
          RegisterStoreFails(c[1], c[2], salt, at) /\ UNCHANGED client
    \/ \E c \in Owners, at \in StoreCalls :
          LoginStoreFails(c[1], c[2], at) /\ UNCHANGED client
    \/ \E cookie \in CookieInputs : RefreshStoreFails(cookie) /\ UNCHANGED client
    \/ \E cookie \in CookieInputs, at \in StoreCalls :
          LogoutStoreFails(cookie, at) /\ UNCHANGED client
    \/ \E bearer \in BearerInputs, at \in StoreCalls :
          CreateStoreFails(bearer, Lunch, at) /\ UNCHANGED client
    \/ \E bearer \in BearerInputs : TransactionsStoreFails(bearer) /\ UNCHANGED client
    \/ \E bearer \in BearerInputs, tid \in TidInputs, at \in StoreCalls :
          UpdateStoreFails(bearer, tid, Salary, at) /\ UNCHANGED client
    \/ \E bearer \in BearerInputs, tid \in TidInputs, at \in StoreCalls :
          DeleteStoreFails(bearer, tid, at) /\ UNCHANGED client

SpecOutage == Init /\ [][NextOutage]_vars

(* Registrations in flight: Register requests interleave between their    *)
(* duplicate check and their User.create, while the clock advances.       *)

NextRace ==
    \/ \E rid \in 1..MaxPending, c \in Credentials, salt \in Salts :
          RegisterFindOne(rid, c[1], c[2], salt) /\ UNCHANGED client
    \/ \E p \in pending : RegisterCreate(p) /\ UNCHANGED client
    \/ Tick /\ UNCHANGED client

SpecRace == Init /\ [][NextRace]_vars

(* The client against server.js: one browser signs up, logs in, reloads,  *)
(* submits and deletes transactions and logs out while the clock          *)
(* advances.                                                              *)

Visitors == {<<"alice", "pw1">>, <<"alice", "">>, <<"alice", "pw2">>}

NextClient ==
    \/ \E isLogin \in BOOLEAN, c \in Visitors, salt \in Salts :
          HandleAuth(isLogin, c[1], c[2], salt)
    \/ FetchTransactions
    \/ Mount
    \/ \E tid \in 0..MaxTx : HandleSubmit(tid, Lunch)
    \/ \E id \in TidInputs : DeleteTransaction(id)
    \/ HandleLogout
    \/ Tick /\ UNCHANGED client

SpecClient == Init /\ [][NextClient]_vars

(* Transaction requests in flight: one user's create, update and delete   *)
(* requests interleave between their load and their save.  The clock      *)
(* stands still.                                                          *)

InterleaveBodies == {Lunch, Salary}

NextInterleave ==
    \/ \E salt \in Salts : Register("alice", "pw1", salt) /\ UNCHANGED client
    \/ \E rid \in 1..MaxPending, bearer \in BearerInputs :
          TxLoad(rid, "create", bearer, 0, Lunch) /\ UNCHANGED client
    \/ \E rid \in 1..MaxPending, bearer \in BearerInputs, tid \in TidInputs,
            body \in InterleaveBodies :
          TxLoad(rid, "update", bearer, tid, body) /\ UNCHANGED client
    \/ \E rid \in 1..MaxPending, bearer \in BearerInputs, tid \in TidInputs :
          TxLoad(rid, "delete", bearer, tid, NoBody) /\ UNCHANGED client
    \/ \E p \in pending, rejectStale \in SchemaVersionKey :
          TxSave(p, rejectStale) /\ UNCHANGED client

SpecInterleave == Init /\ [][NextInterleave]_vars

(* A session changing under a transaction request: the user logs in and   *)
(* out while one create, update or delete request is between its load and *)
(* its save.  The clock stands still.                                     *)

NextTokenRace ==
    \/ \E salt \in Salts : Register("alice", "pw1", salt) /\ UNCHANGED client
    \/ Login("alice", "pw1") /\ UNCHANGED client
    \/ \E cookie \in CookieInputs : Logout(cookie) /\ UNCHANGED client
    \/ \E bearer \in BearerInputs :
          TxLoad(1, "create", bearer, 0, Lunch) /\ UNCHANGED client
    \/ \E bearer \in BearerInputs, tid \in TidInputs :
          TxLoad(1, "update", bearer, tid, Salary) /\ UNCHANGED client
    \/ \E bearer \in BearerInputs, tid \in TidInputs :
          TxLoad(1, "delete", bearer, tid, NoBody) /\ UNCHANGED client
    \/ \E p \in pending, rejectStale \in SchemaVersionKey :
          TxSave(p, rejectStale) /\ UNCHANGED client

SpecTokenRace == Init /\ [][NextTokenRace]_vars

(* Logouts in flight: Logout requests wait between their lookup and their *)
(* save while the user logs in again and the clock advances.              *)

NextLogoutRace ==
    \/ \E salt \in Salts : Register("alice", "pw1", salt) /\ UNCHANGED client
    \/ Login("alice", "pw1") /\ UNCHANGED client
    \/ \E rid \in 1..MaxPending, cookie \in CookieInputs :
          LogoutFindOne(rid, cookie) /\ UNCHANGED client
    \/ \E p \in pending : LogoutSave(p) /\ UNCHANGED client
    \/ Tick /\ UNCHANGED client

SpecLogoutRace == Init /\ [][NextLogoutRace]_vars

----------------------------------------------------------------------------
(* Vocabulary of the properties, stated on the stored documents themselves *)

\* some user document stores cookie value c as its refresh token
Stored(c) == \E i \in Ids(users) : users[i].refreshToken = c

\* c carries the refresh secret's signature and has not expired
SignedAndFresh(c) == c.sig = REFRESH_TOKEN_SECRET /\ now < c.exp

\* the user documents named name
Named(us, name) == {i \in Ids(us) : us[i].username = name}

\* pwd is the password user document i was registered with
PasswordOf(us, i, pwd) == us[i].password.digest = <<us[i].password.salt, pwd>>

\* the identifiers of the transactions user document i owns
TidsOf(us, i) == {us[i].transactions[k]._id : k \in 1..Len(us[i].transactions)}

\* transaction tid belongs to a user other than b
Foreign(us, b, tid) == \E a \in Ids(us) \ {b} : tid \in TidsOf(us, a)

----------------------------------------------------------------------------
(* C1: Refresh returns an access token only when the presented cookie is    *)
(* the refresh token stored on some user, and a correctly signed,           *)
(* unexpired refresh token that no user stores is answered 403 with no      *)
(* access token.                                                            *)
C1_RefreshNeedsStoredToken ==
    resp.op = "refresh" =>
        /\ resp.accessToken # NoTok => Stored(resp.cookie)
        /\ SignedAndFresh(resp.cookie) /\ ~Stored(resp.cookie) =>
              resp.status = 403 /\ resp.accessToken = NoTok

(* C1 as it stands for src/backend/server.js alone. *)
C1_InServerJs == variant = "server" => C1_RefreshNeedsStoredToken

(* C2: once a Logout has presented a cookie that a user stored, every       *)
(* later Refresh presenting that cookie is answered 403, until the value    *)
(* is stored again.                                                         *)
C2_LoggedOutCookieRefused ==
    resp.op = "refresh" /\ ended = [how |-> "logout", cookie |-> resp.cookie] =>
        resp.status = 403

(* C2 as it stands for src/backend/server.js alone. *)
C2_InServerJs == variant = "server" => C2_LoggedOutCookieRefused

(* C3: once a user whose session was live has logged in again, every        *)
(* Refresh presenting the earlier session's cookie is answered 403.         *)
(* Stated for src/backend/server.js, the server the front end calls; in     *)
(* part_000 every Refresh is answered 401.                                  *)
C3_SupersededCookieRefused ==
    /\ variant = "server"
    /\ resp.op = "refresh"
    /\ ended = [how |-> "login", cookie |-> resp.cookie]
    => resp.status = 403

(* C3 short of the reissue: src/backend/server.js answers 403 to          *)
(* the earlier cookie whenever no user stores that value any more.         *)
C3_InServerJsUnlessReissued ==
    /\ variant = "server"
    /\ resp.op = "refresh"
    /\ ended = [how |-> "login", cookie |-> resp.cookie]
    /\ ~Stored(resp.cookie)
    => resp.status = 403

(* C4: a Refresh, whatever its status, leaves every user document as it    *)
(* was (refresh token, password hash, transactions) and sets or clears no   *)
(* cookie: all it produces is an access token.                              *)
C4_RefreshChangesNothing ==
    [][resp'.op = "refresh" =>
          /\ users' = users
          /\ resp'.setCookie = NoTok
          /\ ~resp'.cleared
          /\ resp'.status \in {200, 401, 403}
          /\ resp'.status = 200 => resp'.accessToken.sig = ACCESS_TOKEN_SECRET]_vars

(* C4's case: a Refresh answered 200 while its user stores a refresh token *)
(* and owns a transaction.                                                  *)
C4_Witness ==
    /\ resp.op = "refresh"
    /\ resp.status = 200
    /\ \E i \in Ids(users) :
          users[i].refreshToken = resp.cookie /\ users[i].transactions # <<>>

(* C5: a Refresh presenting the cookie a user's latest Login issued, while  *)
(* that user still stores it and it has not expired, is answered 200 with   *)
(* an access token embedding that user's id; this holds again for every     *)
(* further Refresh with the same cookie.  (ended.how = "login" for the      *)
(* cookie's user says that the stored value came from a Login.)             *)
C5_LiveCookieRefreshes ==
    \A i \in Ids(users) :
        /\ resp.op = "refresh"
        /\ resp.cookie # NoTok
        /\ users[i].refreshToken = resp.cookie
        /\ SignedAndFresh(resp.cookie)
        /\ ended.how = "login" /\ ended.cookie.id = i
        => /\ resp.status = 200
           /\ resp.accessToken.sig = ACCESS_TOKEN_SECRET
           /\ resp.accessToken.id = i

(* C5 for src/backend/server.js alone: every stored, unexpired cookie       *)
(* refreshes, whichever of Register and Login issued it.                    *)
C5_InServerJs ==
    \A i \in Ids(users) :
        /\ variant = "server"
        /\ resp.op = "refresh"
        /\ resp.cookie # NoTok
        /\ users[i].refreshToken = resp.cookie
        /\ SignedAndFresh(resp.cookie)
        => /\ resp.status = 200
           /\ resp.accessToken.sig = ACCESS_TOKEN_SECRET
           /\ resp.accessToken.id = i

(* C6: for users A # B and a transaction t of A, an update or delete of t   *)
(* authenticated as B is answered 404 and changes no document; a list       *)
(* authenticated as B returns B's own collection, which holds no            *)
(* transaction of another user; and a transaction route changes no          *)
(* document but that of the access token's id.                              *)
C6_OwnerIsolation ==
    [][/\ resp'.op \in {"update", "delete"} /\ resp'.uid \in Ids(users)
            /\ Foreign(users, resp'.uid, resp'.tid)
            => resp'.status = 404 /\ users' = users
       /\ resp'.op = "transactions" /\ resp'.status = 200
            => /\ resp'.list = users[resp'.uid].transactions
               /\ \A k \in 1..Len(resp'.list) :
                     ~Foreign(users, resp'.uid, resp'.list[k]._id)
       /\ resp'.op \in {"create", "transactions", "update", "delete"}
            => \A i \in Ids(users) : i # resp'.uid => users'[i] = users[i]]_vars

(* C6 amended: as C6, except that the answer to the foreign update is 400   *)
(* instead of 404 when the body lacks type, category or amount and the      *)
(* server is the one that validates the body before it looks anything up.   *)
C6_OwnerIsolationAmended ==
    [][/\ resp'.op \in {"update", "delete"} /\ resp'.uid \in Ids(users)
            /\ Foreign(users, resp'.uid, resp'.tid)
            => /\ users' = users
               /\ resp'.status =
                     IF /\ resp'.op = "update"
                        /\ variant = "part_000"
                        /\ (resp'.body.type = "" \/ resp'.body.category = ""
                               \/ resp'.body.amount = <<>>)
                     THEN 400 ELSE 404
       /\ resp'.op = "transactions" /\ resp'.status = 200
            => /\ resp'.list = users[resp'.uid].transactions
               /\ \A k \in 1..Len(resp'.list) :
                     ~Foreign(users, resp'.uid, resp'.list[k]._id)
       /\ resp'.op \in {"create", "transactions", "update", "delete"}
            => \A i \in Ids(users) : i # resp'.uid => users'[i] = users[i]]_vars

(* C6's case: B, who owns a transaction too, was answered 404 for a delete  *)
(* of a transaction that A owns.                                            *)
C6_Witness ==
    /\ resp.op = "delete"
    /\ resp.status = 404
    /\ resp.uid \in Ids(users)
    /\ Foreign(users, resp.uid, resp.tid)
    /\ users[resp.uid].transactions # <<>>

(* C7: a Register whose username already exists is answered 409, leaves     *)
(* every user document unchanged, adds none and sets no cookie.             *)
C7_DuplicateRegister ==
    [][resp'.op = "register" /\ Named(users, resp'.user) # {} =>
          /\ resp'.status = 409
          /\ users' = users
          /\ resp'.setCookie = NoTok
          /\ resp'.accessToken = NoTok]_vars

(* C7 amended: the answer is 409 when the request carries a password; when  *)
(* the password is missing or empty it is 400.  Either way every user       *)
(* document is unchanged, none is added and no cookie is set.               *)
C7_DuplicateRegisterAmended ==
    [][resp'.op = "register" /\ Named(users, resp'.user) # {} =>
          /\ resp'.status = IF resp'.pwd = "" THEN 400 ELSE 409
          /\ users' = users
          /\ resp'.setCookie = NoTok
          /\ resp'.accessToken = NoTok]_vars

(* C7's case: a Register answered 409 for the name of a user who stores a   *)
(* refresh token, owns a transaction and has another password.              *)
C7_Witness ==
    /\ resp.op = "register"
    /\ resp.status = 409
    /\ \E i \in Named(users, resp.user) :
          /\ users[i].refreshToken # NoTok
          /\ users[i].transactions # <<>>
          /\ ~PasswordOf(users, i, resp.pwd)

(* C8: a Login with the non-empty username and password a user was          *)
(* registered with is answered 200, and the access token it returns embeds  *)
(* that user's id and passes the access guard.                              *)
C8_RegisterThenLogin ==
    \A i \in Ids(users) :
        /\ resp.op = "login"
        /\ resp.user # "" /\ resp.pwd # ""
        /\ users[i].username = resp.user
        /\ PasswordOf(users, i, resp.pwd)
        => /\ resp.status = 200
           /\ resp.accessToken.id = i
           /\ VerifyJWT(resp.accessToken) = [status |-> 0, id |-> i]

(* C8's case: a Login answered 200 for the second registered user, at a     *)
(* later tick than the registration.                                        *)
C8_Witness ==
    /\ resp.op = "login"
    /\ resp.status = 200
    /\ Len(users) = 2
    /\ users[2].username = resp.user
    /\ now > 0

(* C9: a Login whose username does not exist, or whose password does not    *)
(* match the stored hash, is answered 401, returns no access token, sets    *)
(* no cookie and leaves every user document unchanged.                      *)
C9_FailedLogin ==
    [][/\ resp'.op = "login"
       /\ \/ Named(users, resp'.user) = {}
          \/ \E i \in Named(users, resp'.user) : ~PasswordOf(users, i, resp'.pwd)
       => /\ resp'.status = 401
          /\ resp'.accessToken = NoTok
          /\ resp'.setCookie = NoTok
          /\ users' = users]_vars

(* C9 amended: the answer is 401 when the request carries both a username   *)
(* and a password; when either is missing or empty it is 400.  Either way   *)
(* no access token is returned, no cookie is set and every user document    *)
(* is unchanged.                                                            *)
C9_FailedLoginAmended ==
    [][/\ resp'.op = "login"
       /\ \/ Named(users, resp'.user) = {}
          \/ \E i \in Named(users, resp'.user) : ~PasswordOf(users, i, resp'.pwd)
       => /\ resp'.status = IF resp'.user = "" \/ resp'.pwd = "" THEN 400 ELSE 401
          /\ resp'.accessToken = NoTok
          /\ resp'.setCookie = NoTok
          /\ users' = users]_vars

(* C9's case: a Login with a wrong password answered 401 while that user    *)
(* stores a refresh token that has not expired.                             *)
C9_Witness ==
    /\ resp.op = "login"
    /\ resp.status = 401
    /\ \E i \in Named(users, resp.user) :
          /\ ~PasswordOf(users, i, resp.pwd)
          /\ SignedAndFresh(users[i].refreshToken)

(* C10: when a Register or Login is answered with success, the cookie it    *)
(* sets is a refresh token and is the value stored on that user's document  *)
(* after the request; the user's transactions are what they were before a   *)
(* Login and empty after a Register; every other document is unchanged;     *)
(* and the body's token is an access token, not the refresh token.          *)
C10_SuccessStoresCookie ==
    [][resp'.op \in {"register", "login"} /\ resp'.status \in {200, 201} =>
          /\ resp'.status = IF resp'.op = "register" THEN 201 ELSE 200
          /\ Cardinality(Named(users', resp'.user)) = 1
          /\ \A i \in Named(users', resp'.user) :
                /\ resp'.setCookie.sig = REFRESH_TOKEN_SECRET
                /\ resp'.setCookie.id = i
                /\ users'[i].refreshToken = resp'.setCookie
                /\ users'[i].transactions =
                      IF resp'.op = "login" THEN users[i].transactions ELSE <<>>
                /\ resp'.accessToken.sig = ACCESS_TOKEN_SECRET
                /\ resp'.accessToken.id = i
                /\ resp'.accessToken # resp'.setCookie
                /\ \A j \in Ids(users) : j # i => users'[j] = users[j]]_vars

(* C10's case: a Login answered 200 replaced the live refresh token, of an  *)
(* earlier tick, of a user who owns a transaction.                          *)
C10_Witness ==
    /\ resp.op = "login"
    /\ resp.status = 200
    /\ \E i \in Named(users, resp.user) :
          /\ users[i].transactions # <<>>
          /\ users[i].refreshToken = resp.setCookie
          /\ ended.how = "login"
          /\ ended.cookie.id = i
          /\ ended.cookie # resp.setCookie

(* C11: a Refresh with no cookie is answered 401, and a Refresh with a      *)
(* cookie is never answered 401.                                            *)
C11_UnauthorizedIffNoCookie ==
    resp.op = "refresh" => (resp.status = 401 <=> resp.cookie = NoTok)

(* C11 as it stands for src/backend/server.js alone. *)
C11_InServerJs == variant = "server" => C11_UnauthorizedIffNoCookie

(* C12: a Refresh presenting a cookie that some user stores is answered     *)
(* 403 with no access token when the token does not verify (signature or    *)
(* expiry) or when its id is not the id of the user that stores it.         *)
C12_StoredButInvalidRefused ==
    \A i \in Ids(users) :
        /\ resp.op = "refresh"
        /\ resp.cookie # NoTok
        /\ users[i].refreshToken = resp.cookie
        /\ (~SignedAndFresh(resp.cookie) \/ resp.cookie.id # i)
        => resp.status = 403 /\ resp.accessToken = NoTok

(* C12 as it stands for src/backend/server.js alone. *)
C12_InServerJs == variant = "server" => C12_StoredButInvalidRefused

(* C13: a Logout is answered 204; with no cookie, or with a cookie that no  *)
(* user stores, it changes no user document; and a Logout that follows a    *)
(* Logout with the same cookie changes no user document.                    *)
C13_LogoutIdempotent ==
    [][resp'.op = "logout" =>
          /\ resp'.status = 204
          /\ (resp'.cookie = NoTok \/ ~Stored(resp'.cookie)) => users' = users
          /\ (resp.op = "logout" /\ resp.cookie = resp'.cookie) => users' = users]_vars

(* C13's case: a Logout presenting a cookie that the user's later Login     *)
(* had superseded, so that no user stores it, answered 204 while a session  *)
(* is live.                                                                 *)
C13_Witness ==
    /\ resp.op = "logout"
    /\ resp.status = 204
    /\ resp.cookie # NoTok
    /\ ~Stored(resp.cookie)
    /\ ended = [how |-> "login", cookie |-> resp.cookie]
    /\ \E i \in Ids(users) : SignedAndFresh(users[i].refreshToken)

(* C14: a Logout whose cookie a user stores sets that user's refresh token  *)
(* to null and changes nothing else in any user document.                   *)
C14_LogoutClearsStoredToken ==
    [][\A i \in Ids(users) :
          /\ resp'.op = "logout"
          /\ resp'.cookie # NoTok
          /\ users[i].refreshToken = resp'.cookie
          => users' = [users EXCEPT ![i].refreshToken = NoTok]]_vars

(* C14 as it stands for src/backend/server.js alone. *)
C14_InServerJs ==
    [][\A i \in Ids(users) :
          /\ variant = "server"
          /\ resp'.op = "logout"
          /\ resp'.cookie # NoTok
          /\ users[i].refreshToken = resp'.cookie
          => users' = [users EXCEPT ![i].refreshToken = NoTok]]_vars

(* C15: every Logout answered 204 clears the jwt cookie, whether no cookie  *)
(* was sent, the cookie matched no user, or it matched one.                 *)
C15_LogoutAlwaysClearsCookie ==
    resp.op = "logout" /\ resp.status = 204 => resp.cleared

(* C15 short of the first case: src/backend/server.js clears the cookie     *)
(* whenever the request carried one.                                        *)
C15_InServerJsWhenCookieSent ==
    variant = "server" /\ resp.op = "logout" /\ resp.cookie # NoTok => resp.cleared

\* the four routes behind the access guard
TxOps == {"create", "transactions", "update", "delete"}

\* the bearer token carries the access secret's signature and has not expired
AccessFresh(b) == b.sig = ACCESS_TOKEN_SECRET /\ now < b.exp

(* C16: a transaction route reads and changes no collection unless its      *)
(* access token verifies and has not expired: without a bearer token the    *)
(* answer is 401, and with an expired or a made-up one it is 403, the same  *)
(* for both; no document changes and no list is returned.                   *)
C16_GuardBeforeTransactions ==
    [][resp'.op \in TxOps /\ ~AccessFresh(resp'.bearer) =>
          /\ resp'.status = IF resp'.bearer = NoTok THEN 401 ELSE 403
          /\ users' = users
          /\ nextTid' = nextTid
          /\ resp'.list = <<>>]_vars

(* C16's case: an update of the user's own transaction, presented with the  *)
(* access token signed together with the user's stored refresh token and    *)
(* expired since, answered 403.                                             *)
C16_Witness ==
    /\ resp.op = "update"
    /\ resp.status = 403
    /\ resp.bearer.sig = ACCESS_TOKEN_SECRET
    /\ resp.bearer.id \in Ids(users)
    /\ now >= resp.bearer.exp
    /\ resp.bearer.iat = users[resp.bearer.id].refreshToken.iat
    /\ users[resp.bearer.id].refreshToken # NoTok
    /\ resp.tid \in TidsOf(users, resp.bearer.id)

(* C17: an access token is accepted by every transaction route as long as   *)
(* it has not expired, whether or not its user's session has been ended by  *)
(* a Logout or replaced by a Login since; once expired it is answered 403.  *)
C17_NoRevocationCheck ==
    [][resp'.op \in TxOps /\ resp'.bearer.sig = ACCESS_TOKEN_SECRET =>
          IF now < resp'.bearer.exp
          THEN resp'.status \notin {401, 403} /\ resp'.uid = resp'.bearer.id
          ELSE resp'.status = 403 /\ resp'.uid = 0]_vars

(* C17's case: a create answered 201 for a user whose session a Logout has  *)
(* ended: the user stores no refresh token, and the access token is the one *)
(* signed together with the cookie that the Logout presented.               *)
C17_Witness ==
    /\ resp.op = "create"
    /\ resp.status = 201
    /\ resp.uid \in Ids(users)
    /\ users[resp.uid].refreshToken = NoTok
    /\ ended.how = "logout"
    /\ ended.cookie.id = resp.uid
    /\ resp.bearer.iat = ended.cookie.iat

\* the five fields of sub-document t are those of body b
HoldsFields(t, b) ==
    /\ t.type = b.type
    /\ t.category = b.category
    /\ t.amount = b.amount
    /\ t.description = b.description
    /\ t.date = b.date

(* C18: an update answered 200 replaces type, category, amount and          *)
(* description of the addressed transaction with the body's values, empty   *)
(* ones included, and its date with the body's date when that is not        *)
(* empty; otherwise the date stays.                                         *)
C18_UpdateReplacesFields ==
    [][resp'.op = "update" /\ resp'.status = 200 =>
          \E k \in 1..Len(users[resp'.uid].transactions) :
              LET old == users[resp'.uid].transactions[k]
                  new == users'[resp'.uid].transactions[k]
              IN /\ old._id = resp'.tid
                 /\ new._id = old._id
                 /\ new.type = resp'.body.type
                 /\ new.category = resp'.body.category
                 /\ new.amount = resp'.body.amount
                 /\ new.description = resp'.body.description
                 /\ new.date = IF resp'.body.date # "" THEN resp'.body.date
                               ELSE old.date]_vars

(* C18's case: an update answered 200 whose body had an empty description   *)
(* and no date: the transaction, created with a description and a date,     *)
(* has the empty description and its date of before.                        *)
C18_Witness ==
    /\ resp.op = "update"
    /\ resp.status = 200
    /\ resp.body = Salary
    /\ \E k \in 1..Len(users[resp.uid].transactions) :
          LET t == users[resp.uid].transactions[k]
          IN /\ t._id = resp.tid
             /\ t.type = "income"
             /\ t.description = ""
             /\ t.date = Lunch.date

(* C19: a create answered 201 leaves in the user's collection a record      *)
(* holding the body's five values; a list answered 200 returns the stored   *)
(* collection; a delete answered 200 leaves the collection without the      *)
(* addressed record; and an identifier that has left the collection never   *)
(* returns to it, so no later list shows the record.                        *)
C19_RoundTrip ==
    [][/\ resp'.op = "create" /\ resp'.status = 201
            => \E k \in 1..Len(users'[resp'.uid].transactions) :
                  /\ HoldsFields(users'[resp'.uid].transactions[k], resp'.body)
                  /\ users'[resp'.uid].transactions[k]._id \notin TidsOf(users, resp'.uid)
       /\ resp'.op = "transactions" /\ resp'.status = 200
            => resp'.list = users[resp'.uid].transactions
       /\ resp'.op = "delete" /\ resp'.status = 200
            => resp'.tid \notin TidsOf(users', resp'.uid)
       /\ \A i \in Ids(users) : \A tid \in 1..nextTid :
             tid \notin TidsOf(users, i) => tid \notin TidsOf(users', i)]_vars

(* C19's case: a list answered 200 that shows the record of the second      *)
(* create, with its five values, and not the first record, deleted before.  *)
C19_Witness ==
    /\ resp.op = "transactions"
    /\ resp.status = 200
    /\ nextTid = 2
    /\ Len(resp.list) = 1
    /\ resp.list[1]._id = 2
    /\ HoldsFields(resp.list[1], Lunch)

(* C20: an update or delete whose user document does not exist, or whose    *)
(* transaction id is not in that user's own collection, is answered 404     *)
(* and changes no user document.                                            *)
C20_NotFound ==
    [][/\ resp'.op \in {"update", "delete"}
       /\ resp'.uid # 0
       /\ (resp'.uid \notin Ids(users) \/ resp'.tid \notin TidsOf(users, resp'.uid))
       => resp'.status = 404 /\ users' = users]_vars

(* C20 amended: as C20, except that the answer to the update is 400         *)
(* instead of 404 when the body lacks type, category or amount and the      *)
(* server is the one that validates the body before it looks anything up.   *)
C20_NotFoundAmended ==
    [][/\ resp'.op \in {"update", "delete"}
       /\ resp'.uid # 0
       /\ (resp'.uid \notin Ids(users) \/ resp'.tid \notin TidsOf(users, resp'.uid))
       => /\ users' = users
          /\ resp'.status =
                IF /\ resp'.op = "update"
                   /\ variant = "part_000"
                   /\ (resp'.body.type = "" \/ resp'.body.category = ""
                          \/ resp'.body.amount = <<>>)
                THEN 400 ELSE 404]_vars

(* C20's case: a delete answered 404 for a user whose document is gone,     *)
(* addressing a transaction that a registered user owns.                    *)
C20_Witness ==
    /\ resp.op = "delete"
    /\ resp.status = 404
    /\ resp.uid # 0
    /\ resp.uid \notin Ids(users)
    /\ \E i \in Ids(users) : resp.tid \in TidsOf(users, i)

\* body b lacks one of the three required fields
MissingRequired(b) == b.type = "" \/ b.category = "" \/ b.amount = <<>>

(* C21: an update of one of the user's own transactions whose body lacks    *)
(* type, category or amount is answered 400 and changes no document.        *)
C21_UpdateValidates ==
    [][/\ resp'.op = "update"
       /\ resp'.uid \in Ids(users)
       /\ resp'.tid \in TidsOf(users, resp'.uid)
       /\ MissingRequired(resp'.body)
       => resp'.status = 400 /\ users' = users]_vars

(* C21 as it stands for src/unnamed/part_000 alone. *)
C21_InPart000 ==
    [][/\ variant = "part_000"
       /\ resp'.op = "update"
       /\ resp'.uid \in Ids(users)
       /\ resp'.tid \in TidsOf(users, resp'.uid)
       /\ MissingRequired(resp'.body)
       => resp'.status = 400 /\ users' = users]_vars

(* C22: every stored transaction has a type, a category and an amount.      *)
C22_RequiredFieldsStored ==
    \A i \in Ids(users) : \A k \in 1..Len(users[i].transactions) :
        ~MissingRequired(users[i].transactions[k])

(* C22 short of the category: every stored transaction has a type and an    *)
(* amount.                                                                  *)
C22_TypeAndAmountStored ==
    \A i \in Ids(users) : \A k \in 1..Len(users[i].transactions) :
        /\ users[i].transactions[k].type # ""
        /\ users[i].transactions[k].amount # <<>>

\* the identifiers of a collection are pairwise distinct
DistinctIds(txs) ==
    \A j, k \in 1..Len(txs) : txs[j]._id = txs[k]._id => j = k

(* C23: a create answered 201 appends exactly one record to the user's      *)
(* collection, under an identifier that no record of the collection had,    *)
(* leaves the records before it and every other document unchanged; and     *)
(* the identifiers of every collection are pairwise distinct.               *)
C23_CreateAppendsFresh ==
    [][/\ resp'.op = "create" /\ resp'.status = 201
            => LET old == users[resp'.uid].transactions
                   new == users'[resp'.uid].transactions
               IN /\ Len(new) = Len(old) + 1
                  /\ SubSeq(new, 1, Len(old)) = old
                  /\ HoldsFields(new[Len(new)], resp'.body)
                  /\ new[Len(new)]._id \notin TidsOf(users, resp'.uid)
                  /\ \A i \in Ids(users) : i # resp'.uid => users'[i] = users[i]
       /\ \A i \in Ids(users') : DistinctIds(users'[i].transactions)]_vars

(* C23's case: a create answered 201 has put a second record behind the     *)
(* first of the user's collection.                                          *)
C23_Witness ==
    /\ resp.op = "create"
    /\ resp.status = 201
    /\ Len(users[resp.uid].transactions) = 2
    /\ HoldsFields(users[resp.uid].transactions[2], resp.body)
    /\ ~HoldsFields(users[resp.uid].transactions[1], resp.body)

(* C24: a user document holds one refresh token field; every stored         *)
(* refresh token that is not null embeds the id of the user storing it and  *)
(* is stored by no other user.                                              *)
C24_StoredTokenIsOwn ==
    \A i \in Ids(users) :
        users[i].refreshToken # NoTok =>
            /\ users[i].refreshToken.sig = REFRESH_TOKEN_SECRET
            /\ users[i].refreshToken.id = i
            /\ \A j \in Ids(users) : users[j].refreshToken = users[i].refreshToken => j = i

(* C24's case: two users store refresh tokens signed in the same second,    *)
(* after the clock has advanced.                                            *)
C24_Witness ==
    /\ Len(users) = 2
    /\ users[1].refreshToken # NoTok
    /\ users[2].refreshToken # NoTok
    /\ users[1].refreshToken.iat = users[2].refreshToken.iat
    /\ users[1].refreshToken.iat > 0

(* C26: a Register or Login whose username or password is missing or empty  *)
(* is answered 400, creates no user, changes no document and sets no        *)
(* cookie.                                                                  *)
C26_MissingFieldRejected ==
    [][/\ resp'.op \in {"register", "login"}
       /\ (resp'.user = "" \/ resp'.pwd = "")
       => /\ resp'.status = 400
          /\ users' = users
          /\ resp'.setCookie = NoTok
          /\ resp'.accessToken = NoTok]_vars

(* C26's case: a Login without password answered 400 for the name of a      *)
(* user whose session is live.                                              *)
C26_Witness ==
    /\ resp.op = "login"
    /\ resp.status = 400
    /\ resp.pwd = ""
    /\ \E i \in Named(users, resp.user) : SignedAndFresh(users[i].refreshToken)

(* C28: every stored transaction has kind income or expense and an amount   *)
(* that is not negative.                                                    *)
C28_KindAndAmountValid ==
    \A i \in Ids(users) : \A k \in 1..Len(users[i].transactions) :
        LET t == users[i].transactions[k]
        IN /\ t.type \in {"income", "expense"}
           /\ t.amount # <<>>
           /\ t.amount[1] >= 0

(* C28's case: an update of the user's own transaction with a negative      *)
(* amount, answered 500.                                                    *)
C28_Witness ==
    /\ resp.op = "update"
    /\ resp.status = 500
    /\ resp.body = Negative
    /\ resp.uid \in Ids(users)
    /\ resp.tid \in TidsOf(users, resp.uid)

(* C29: a list answered 200 returns the user's whole collection, every      *)
(* record in stored order; and a list, whatever its answer, changes no      *)
(* document.                                                                *)
C29_ListIsWholeCollection ==
    [][resp'.op = "transactions" =>
          /\ users' = users
          /\ nextTid' = nextTid
          /\ resp'.status = 200 => resp'.list = users[resp'.uid].transactions]_vars

(* C29's case: a list answered 200 with two records of different kinds, in  *)
(* the order of their creation.                                             *)
C29_Witness ==
    /\ resp.op = "transactions"
    /\ resp.status = 200
    /\ Len(resp.list) = 2
    /\ resp.list[1].type = "income"
    /\ resp.list[2].type = "expense"
    /\ resp.list[1]._id < resp.list[2]._id

(* C25: a request during which a store read or write fails is answered 500. *)
C25_StoreFailureAnswered500 ==
    resp.fault # "none" => resp.status = 500

(* C25 for the handlers whose store calls stand inside try/catch. *)
C25_CaughtAnswered500 ==
    resp.fault # "none" /\ Caught(resp.op) => resp.status = 500

(* C27: no two user documents have the same username, also when Register    *)
(* requests for one new username interleave between their duplicate check   *)
(* and their creation; a Register is answered 201 only when no document of  *)
(* its username existed, so at most one of them is.                         *)
C27_UsernamesUnique ==
    [][/\ \A i, j \in Ids(users') : users'[i].username = users'[j].username => i = j
       /\ \A p \in pending :
             pending' = pending \ {p} /\ resp'.status = 201
                => /\ Named(users, p.user) = {}
                   /\ Cardinality(Named(users', p.user)) = 1]_vars

(* C27's case: of two Register requests in flight for one new username, the *)
(* one with the other password came second and is answered 500 while the    *)
(* first one's document is stored.                                          *)
C27_Witness ==
    /\ resp.op = "register"
    /\ resp.status = 500
    /\ resp.fault = "create"
    /\ \E i \in Named(users, resp.user) :
          /\ ~BcryptCompare(resp.pwd, users[i].password)
          /\ users[i].refreshToken # NoTok

\* the client's access token has expired while its cookie is still the
\* refresh token stored for its user, unexpired
ExpiredButSessionLive ==
    /\ client.accessToken.sig = ACCESS_TOKEN_SECRET
    /\ ~AccessFresh(client.accessToken)
    /\ client.accessToken.id \in Ids(users)
    /\ users[client.accessToken.id].refreshToken = client.cookie
    /\ SignedAndFresh(client.cookie)

\* this step is a request of the client to a transaction route
ProtectedRequest ==
    /\ resp'.op \in TxOps
    /\ resp'.bearer = client.accessToken
    /\ resp' # resp \/ client' # client

(* C30: a protected request of the client made when its access token has    *)
(* expired while its refresh cookie is still the stored one is not left     *)
(* rejected: the client refreshes, stores the new access token and retries, *)
(* so the request ends other than Forbidden and the client holds a live     *)
(* access token, without a new Login.                                       *)
C30_ClientRefreshesAndRetries ==
    [][ProtectedRequest /\ ExpiredButSessionLive
          => resp'.status # 403 /\ AccessFresh(client'.accessToken)]_vars

(* What the client does in C30's case: the request ends Forbidden, the      *)
(* stored access token stays the expired one, and nothing is changed.       *)
C30_ClientLeavesItForbidden ==
    [][ProtectedRequest /\ ExpiredButSessionLive
          => /\ resp'.status = 403
             /\ client'.accessToken = client.accessToken
             /\ users' = users]_vars

\* the position of the record with identifier tid in collection txs
PositionOf(txs, tid) == CHOOSE k \in 1..Len(txs) : txs[k]._id = tid

(* C35: a delete answered 200 removes exactly the addressed record: the     *)
(* collection is one shorter and the other records keep their identifiers,  *)
(* their fields and their order.  An update answered 200 changes only the   *)
(* addressed record: the collection keeps its length and every other        *)
(* record is as it was.  No other user's document changes.                  *)
C35_OnlyAddressedRecord ==
    [][resp'.op \in {"delete", "update"} /\ resp'.status = 200
          => LET old == users[resp'.uid].transactions
                 new == users'[resp'.uid].transactions
                 k == PositionOf(old, resp'.tid)
             IN /\ resp'.tid \in TidsOf(users, resp'.uid)
                /\ \A i \in Ids(users) : i # resp'.uid => users'[i] = users[i]
                /\ resp'.op = "delete"
                      => /\ Len(new) = Len(old) - 1
                         /\ \A j \in 1..Len(new) :
                               new[j] = IF j < k THEN old[j] ELSE old[j + 1]
                /\ resp'.op = "update"
                      => /\ Len(new) = Len(old)
                         /\ new[k]._id = resp'.tid
                         /\ \A j \in 1..Len(old) : j # k => new[j] = old[j]]_vars

(* C35's case: a delete answered 200 has removed the first of two records   *)
(* and the second is what the collection holds.                             *)
C35_Witness ==
    /\ resp.op = "delete"
    /\ resp.status = 200
    /\ resp.tid = 1
    /\ resp.uid \in Ids(users)
    /\ Len(users[resp.uid].transactions) = 1
    /\ users[resp.uid].transactions[1]._id = 2

(* C34: a Register answered 500 leaves no user document behind: the store   *)
(* is as it was before the request, so the username can still be            *)
(* registered.                                                              *)
C34_RegisterAllOrNothing ==
    [][resp'.op = "register" /\ resp'.status = 500 => users' = users]_vars

(* C34 for the failures before the document is created: a Register          *)
(* answered 500 because User.findOne or User.create rejected leaves the     *)
(* store as it was.                                                         *)
C34_NothingBeforeCreate ==
    [][/\ resp'.op = "register"
       /\ resp'.status = 500
       /\ resp'.fault \in {"findOne", "create"}
       => users' = users]_vars

(* C36: when the client's handleLogout has finished, local storage holds    *)
(* neither the access token nor the current user name, so that the next     *)
(* mount stays on the login screen and fetches nothing.                     *)
C36_LogoutKeepsNoSession ==
    [][client.screen = "app" /\ client'.screen = "login"
          => client'.accessToken = NoTok /\ client'.currentUser = ""]_vars

(* What handleLogout does: the access token is removed and the current user *)
(* name stays in local storage, where the next mount finds it.              *)
C36_LogoutKeepsUserName ==
    [][client.screen = "app" /\ client'.screen = "login"
          => /\ client'.accessToken = NoTok
             /\ client'.currentUser = client.currentUser
             /\ client'.currentUser # ""]_vars

\* this step is the second step of the request in flight p: its save and
\* its answer
Completes(p) == p \in pending /\ pending' = pending \ {p}

\* collection txs without the record of identifier tid
WithoutRecord(txs, tid) == SelectSeq(txs, LAMBDA t : t._id # tid)

\* record t holds what an update with body b assigns: the body's type,
\* category, amount and description, and its date when it has one
UpdatedBy(t, b) ==
    /\ t.type = b.type
    /\ t.category = b.category
    /\ t.amount = b.amount
    /\ t.description = b.description
    /\ b.date # "" => t.date = b.date

\* the stored collection new reflects request p applied to the stored
\* collection old: a create has appended its record, a delete has removed
\* its record if it was still there, an update has left the length and every
\* record it does not address as they were, and the record it addresses,
\* when that is still as the request loaded it, holds what it assigns
Reflects(p, old, new) ==
    /\ p.kind = "create" =>
          /\ Len(new) = Len(old) + 1
          /\ SubSeq(new, 1, Len(old)) = old
          /\ HoldsFields(new[Len(new)], p.body)
    /\ p.kind = "delete" => new = WithoutRecord(old, p.tid)
    /\ p.kind = "update" =>
          /\ Len(new) = Len(old)
          /\ \A j \in 1..Len(old) :
                IF old[j]._id # p.tid THEN new[j] = old[j]
                ELSE /\ new[j]._id = p.tid
                     /\ old[j] = p.doc.transactions[p.k] => UpdatedBy(new[j], p.body)

(* C31: no acknowledged transaction write is lost when requests of one user *)
(* interleave between load and save: whenever a create, update or delete    *)
(* is answered with success, the stored collection reflects it and keeps    *)
(* what the requests acknowledged before it wrote to the other records.     *)
C31_AcknowledgedWritesKept ==
    [][\A p \in pending :
          Completes(p) /\ resp'.status \in {200, 201}
             => Reflects(p, users[p.uid].transactions, users'[p.uid].transactions)]_vars

(* C31 for create and delete alone, whose writes go by $push and by $pull   *)
(* of an identifier.                                                        *)
C31_CreatesAndDeletesKept ==
    [][\A p \in pending :
          Completes(p) /\ resp'.status \in {200, 201} /\ p.kind # "update"
             => Reflects(p, users[p.uid].transactions, users'[p.uid].transactions)]_vars

(* C31 for the updates saved while the document's version key is the one    *)
(* loaded: no create or delete was saved in between.                        *)
C31_UpdatesOfCurrentVersionKept ==
    [][\A p \in pending :
          /\ Completes(p)
          /\ resp'.status = 200
          /\ p.kind = "update"
          /\ users[p.uid].__v = p.doc.__v
          => Reflects(p, users[p.uid].transactions, users'[p.uid].transactions)]_vars

(* C32: the save of a create, update or delete never changes a stored       *)
(* refresh token: when a Login or Logout of the same user has completed     *)
(* between the request's load and its save, the token stored after the save *)
(* is the one that Login or Logout wrote.                                   *)
C32_SaveKeepsRefreshToken ==
    [][\A p \in pending :
          Completes(p)
             => \A i \in Ids(users) : users'[i].refreshToken = users[i].refreshToken]_vars

(* C32's case: a create answered 201 whose document was loaded while the    *)
(* user was logged out, saved after a Login; the Login's token is stored.   *)
C32_Witness ==
    /\ resp.op = "create"
    /\ resp.status = 201
    /\ resp.loaded # <<>>
    /\ resp.loaded[1].refreshToken = NoTok
    /\ SignedAndFresh(users[resp.uid].refreshToken)
    /\ Len(users[resp.uid].transactions) > Len(resp.loaded[1].transactions)

(* C33: a Logout presenting cookie value c never clears a stored refresh    *)
(* token different from c, also when a Login of the same user completes     *)
(* between the Logout's lookup and its save.                                *)
C33_LogoutClearsOnlyItsCookie ==
    [][\A p \in pending :
          Completes(p)
             => \A i \in Ids(users) :
                   users[i].refreshToken # p.cookie
                      => users'[i].refreshToken = users[i].refreshToken]_vars

(* What the Logout's save does: whatever token the user found holds by      *)
(* then is cleared, and no other document changes.                          *)
C33_ClearsWhateverIsStored ==
    [][\A p \in pending :
          Completes(p)
             => /\ users'[p.uid].refreshToken = NoTok
                /\ \A i \in Ids(users) : i # p.uid => users'[i] = users[i]]_vars

====
